---- MODULE Spec2Model ----
(***************************************************************************)
(* OpenMemory (openmemory-js): the Memory facade (core/memory.ts), the     *)
(* temporal fact queries (temporal_graph/query.ts) and the fact store they *)
(* read and write.  Instants are milliseconds abstracted to 0..MaxTime,    *)
(* confidences are tenths (10 = 1.0), strings that SQL LIKE inspects are   *)
(* sequences of characters.                                                *)
(***************************************************************************)
EXTENDS Integers, Sequences, FiniteSets, TLC

\* ------------------------------------------------------------------ bounds
MaxFacts == 2
MaxTime == 1
MaxMems == 1
MaxVectors == 3
MaxListed == 3
MaxInFlight == 2

\* --------------------------------------------------------------- constants
\* SQL NULL in an integer column (valid_to of an open fact)
Null == -1
\* a falsy user id: undefined, null or the empty string
NoUser == ""
Users == {"alice", "bob"}
UserArgs == Users \cup {NoUser}

John == <<"J", "o">>
Jane == <<"J", "a">>
WorksAt == <<"w", "a">>
LivesIn == <<"l", "i">>
Acme == <<"A", "c">>
Globex == <<"G", "l">>
Subjects == {John}
Predicates == {WorksAt}
Objects == {Acme, Globex}
\* the strings a query may name: the stored ones and one that is never stored
QSubjects == Subjects \cup {Jane}
QPredicates == Predicates \cup {LivesIn}
QObjects == Objects
\* an omitted (undefined) string argument; the empty string is falsy as well
NoStr == <<>>

Times == 0..MaxTime
Confidences == {5, 10}
MinConfidences == {0, 5, 10}
\* metadata maps, abstracted to a tag and the source_memory_id key (0: absent)
NoMemory == 0
Meta(tag, source_memory_id) == [tag |-> tag, source_memory_id |-> source_memory_id]
NoMeta == Meta("none", NoMemory)
Metas == {Meta("m1", NoMemory)}

VARIABLES
    facts,      \* the rows of table temporal_facts
    nextId,     \* the number of fact ids handed out so far, plus one
    pending,    \* insert_fact calls suspended between their two storage calls
    mems,       \* the rows of table memories
    nextMem,    \* the number of memory ids handed out so far, plus one
    vectors,    \* the rows of table vectors
    cache,      \* the entries of the query result cache of hsg_query
    waypoints,  \* the edges <<src, dst>> of the waypoint graph
    checked     \* mutation calls suspended between ownership check and mutation

vars == <<facts, nextId, pending, mems, nextMem, vectors, cache, waypoints, checked>>

\* the per-call user_id alone, the instance default never read
EffectiveUser_PerCallOnly(user_id, default_user) == user_id

\* ----------------------------------------------------------- Memory facade
\* `opts?.user_id || this.default_user`, then `uid ?? undefined`
EffectiveUser(user_id, default_user) ==
    IF user_id # NoUser THEN user_id ELSE default_user

\* ------------------------------------------------- temporal_graph/query.ts
\* rows.map(row => ...): `row.valid_to ? new Date(...) : null` turns a
\* valid_to of 0 (falsy) into null, like a NULL column
RowToFact(row) ==
    [row EXCEPT !.valid_to = IF row.valid_to = Null \/ row.valid_to = 0
                             THEN Null ELSE row.valid_to]

\* '(valid_from <= ? AND (valid_to IS NULL OR valid_to >= ?))'
ActiveAt(row, timestamp) ==
    /\ row.valid_from <= timestamp
    /\ (row.valid_to = Null \/ row.valid_to >= timestamp)

\* the user condition left out of the WHERE clause
UserCond_Unscoped(row, user_id) ==
    TRUE

\* `if (user_id) conditions.push('user_id = ?')`
UserCond(row, user_id) ==
    user_id # NoUser => row.user_id = user_id

\* `if (x) conditions.push('x = ?')` for subject, predicate and object
StrCond(value, arg) ==
    arg # NoStr => value = arg

\* the rows selected by query_facts_at_time
query_facts_at_time_rows(F, subject, predicate, object, at, min_confidence, user_id) ==
    {row \in F :
        /\ ActiveAt(row, at)
        /\ UserCond(row, user_id)
        /\ StrCond(row.subject, subject)
        /\ StrCond(row.predicate, predicate)
        /\ StrCond(row.object, object)
        /\ (min_confidence > 0 => row.confidence >= min_confidence)}

query_facts_at_time(F, subject, predicate, object, at, min_confidence, user_id) ==
    {RowToFact(row) : row \in
        query_facts_at_time_rows(F, subject, predicate, object, at, min_confidence, user_id)}

\* get_current_fact without 'valid_to IS NULL'
get_current_fact_rows_AnyValidTo(F, subject, predicate, user_id) ==
    LET cand == {row \in F :
                    /\ row.subject = subject
                    /\ row.predicate = predicate
                    /\ UserCond(row, user_id)}
    IN {row \in cand : \A other \in cand : other.valid_from <= row.valid_from}

\* the rows get_current_fact may return: `ORDER BY valid_from DESC LIMIT 1`
\* leaves the choice among rows of equal valid_from to the database
get_current_fact_rows(F, subject, predicate, user_id) ==
    LET cand == {row \in F :
                    /\ row.subject = subject
                    /\ row.predicate = predicate
                    /\ row.valid_to = Null
                    /\ UserCond(row, user_id)}
    IN {row \in cand : \A other \in cand : other.valid_from <= row.valid_from}

\* the facts get_current_fact may return; the empty set stands for null
get_current_fact(F, subject, predicate, user_id) ==
    {RowToFact(row) : row \in get_current_fact_rows(F, subject, predicate, user_id)}

\* an omitted Date argument (from?, to?, at?)
NoTime == Null

\* the range condition without the overlap disjunct: only the facts that
\* begin inside [from, to]
RangeCond_BeginsInside(row, from, to) ==
    /\ (from # NoTime => row.valid_from >= from)
    /\ (to # NoTime => row.valid_from <= to)

RangeCond(row, from, to) ==
    IF from # NoTime /\ to # NoTime
    THEN \/ (row.valid_from <= to /\ (row.valid_to = Null \/ row.valid_to >= from))
         \/ (row.valid_from >= from /\ row.valid_from <= to)
    ELSE IF from # NoTime THEN row.valid_from >= from
    ELSE IF to # NoTime THEN row.valid_from <= to
    ELSE TRUE

query_facts_in_range(F, subject, predicate, from, to, min_confidence, user_id) ==
    {RowToFact(row) : row \in {r \in F :
        /\ RangeCond(r, from, to)
        /\ UserCond(r, user_id)
        /\ StrCond(r.subject, subject)
        /\ StrCond(r.predicate, predicate)
        /\ (min_confidence > 0 => r.confidence >= min_confidence)}}

\* `at ? at.getTime() : Date.now()`: the caller's `now` stands for Date.now()
find_conflicting_facts(F, subject, predicate, at, user_id) ==
    {RowToFact(row) : row \in {r \in F :
        /\ r.subject = subject
        /\ r.predicate = predicate
        /\ ActiveAt(r, at)
        /\ UserCond(r, user_id)}}

\* the lists find_conflicting_facts may return: 'ORDER BY confidence DESC'
\* leaves the order among rows of equal confidence to the database
find_conflicting_facts_list(F, subject, predicate, at, user_id) ==
    LET R == {r \in F :
                 /\ r.subject = subject
                 /\ r.predicate = predicate
                 /\ ActiveAt(r, at)
                 /\ UserCond(r, user_id)}
        n == Cardinality(R)
    IN {[i \in 1..n |-> RowToFact(q[i])] : q \in
          {q \in [1..n -> R] :
              \A i \in 1..n, j \in 1..n :
                  i < j => q[i] # q[j] /\ q[i].confidence >= q[j].confidence}}

get_facts_by_subject(F, subject, at, include_historical, user_id) ==
    {RowToFact(row) : row \in {r \in F :
        /\ r.subject = subject
        /\ (~include_historical => ActiveAt(r, at))
        /\ UserCond(r, user_id)}}

\* SQL LIKE folds ASCII case on SQLite and not on Postgres
Fold(c) ==
    CASE c = "A" -> "a" [] c = "G" -> "g" [] c = "J" -> "j" [] OTHER -> c

CharEq(a, b, fold_case) ==
    IF fold_case THEN Fold(a) = Fold(b) ELSE a = b

\* SQL LIKE: '%' matches any run of characters, '_' any one character
RECURSIVE Like(_, _, _)
Like(str, pat, fold_case) ==
    IF pat = <<>> THEN str = <<>>
    ELSE IF Head(pat) = "%"
         THEN \/ Like(str, Tail(pat), fold_case)
              \/ (str # <<>> /\ Like(Tail(str), pat, fold_case))
    ELSE /\ str # <<>>
         /\ (Head(pat) = "_" \/ CharEq(Head(str), Head(pat), fold_case))
         /\ Like(Tail(str), Tail(pat), fold_case)

Field(row, field) ==
    CASE field = "subject" -> row.subject
      [] field = "predicate" -> row.predicate
      [] field = "object" -> row.object

\* the rows matched by search_facts, before ORDER BY ... LIMIT 100
search_facts(F, pattern, field, at, user_id, fold_case) ==
    LET search_pattern == <<"%">> \o pattern \o <<"%">>
    IN {RowToFact(row) : row \in {r \in F :
        /\ Like(Field(r, field), search_pattern, fold_case)
        /\ ActiveAt(r, at)
        /\ UserCond(r, user_id)}}

\* 'LIMIT 100'
SearchLimit == 100

\* 'ORDER BY confidence DESC, valid_from DESC': a sorts strictly before b
SortsBefore(a, b) ==
    \/ a.confidence > b.confidence
    \/ (a.confidence = b.confidence /\ a.valid_from > b.valid_from)

\* the lists ORDER BY ... LIMIT limit may give for the rows of R: the order
\* among rows that compare equal is the database's choice
OrderAndLimit(R, limit) ==
    LET n == IF Cardinality(R) <= limit THEN Cardinality(R) ELSE limit
    IN {q \in [1..n -> R] :
          /\ \A i \in 1..n, j \in 1..n : i < j => q[i] # q[j] /\ ~SortsBefore(q[j], q[i])
          /\ \A r \in R : (\A i \in 1..n : q[i] # r) =>
                \A i \in 1..n : ~SortsBefore(r, q[i])}

\* the lists search_facts may return
search_facts_list(F, pattern, field, at, user_id, fold_case) ==
    LET search_pattern == <<"%">> \o pattern \o <<"%">>
        rows == OrderAndLimit({r \in F :
                    /\ Like(Field(r, field), search_pattern, fold_case)
                    /\ ActiveAt(r, at)
                    /\ UserCond(r, user_id)}, SearchLimit)
    IN {[i \in 1..Len(q) |-> RowToFact(q[i])] : q \in rows}

\* ------------------------------------------------- temporal_graph/store.ts
\* insert_fact, first storage call: close every open fact of (user, s, p)
\* at the new fact's valid_from
close_open_facts(F, user_id, subject, predicate, valid_from) ==
    {IF /\ r.user_id = user_id
        /\ r.subject = subject
        /\ r.predicate = predicate
        /\ r.valid_to = Null
     THEN [r EXCEPT !.valid_to = valid_from]
     ELSE r : r \in F}

\* insert_fact: close the open facts of the key, then insert the new open fact
insert_fact(F, row) ==
    close_open_facts(F, row.user_id, row.subject, row.predicate, row.valid_from)
        \cup {row}

\* batch_insert_facts: the inserts of one transaction, in array order
RECURSIVE batch_insert_facts(_, _)
batch_insert_facts(F, rows) ==
    IF rows = <<>> THEN F
    ELSE batch_insert_facts(insert_fact(F, Head(rows)), Tail(rows))

\* an omitted confidence or metadata argument of update_fact
NoConfidence == Null
Undefined == Meta("undefined", NoMemory)

update_fact(F, id, confidence, metadata) ==
    {IF r.id = id
     THEN [r EXCEPT !.confidence = IF confidence = NoConfidence THEN @ ELSE confidence,
                    !.metadata = IF metadata = Undefined THEN @ ELSE metadata]
     ELSE r : r \in F}

invalidate_fact(F, id, valid_to) ==
    {IF r.id = id THEN [r EXCEPT !.valid_to = valid_to] ELSE r : r \in F}

delete_fact(F, id) ==
    {r \in F : r.id # id}

\* ------------------------------------------------------- core/memory.ts
NoError == <<>>
NotFoundMsg(id) == <<"Fact ", id, " not found">>
NotFoundForUserMsg(id, uid) == <<"Fact ", id, " not found for user ", uid>>

\* the ownership check without the comparison of fact.user_id and uid
OwnershipError_ExistenceOnly(F, id, uid) ==
    IF uid = NoUser THEN NoError
    ELSE IF ~\E r \in F : r.id = id THEN NotFoundMsg(id)
    ELSE NoError

\* "Validate ownership if user_id is specified": the error thrown, if any
OwnershipError(F, id, uid) ==
    IF uid = NoUser THEN NoError
    ELSE IF ~\E r \in F : r.id = id THEN NotFoundMsg(id)
    ELSE IF (CHOOSE r \in F : r.id = id).user_id # uid THEN NotFoundForUserMsg(id, uid)
    ELSE NoError

\* what a call leaves behind: the fact table and the error it threw
Outcome(F, err) == [facts |-> F, err |-> err]

\* the row addFact hands to insert_fact
FactRow(id, uid, subject, predicate, object, valid_from, confidence, metadata) ==
    [id |-> id, user_id |-> uid, subject |-> subject, predicate |-> predicate,
     object |-> object, valid_from |-> valid_from, valid_to |-> Null,
     confidence |-> confidence, metadata |-> metadata]

addFact(subject, predicate, object, valid_from, confidence, metadata, user_id, default_user) ==
    LET uid == EffectiveUser(user_id, default_user)
    IN /\ nextId <= MaxFacts
       /\ facts' = insert_fact(facts,
              FactRow(nextId, uid, subject, predicate, object, valid_from, confidence, metadata))
       /\ nextId' = nextId + 1
       /\ UNCHANGED <<pending, mems, nextMem, vectors, cache, waypoints, checked>>

\* the elements of a facts array: [user_id, subject, predicate, object, valid_from, confidence]
BatchFacts ==
    [user_id : {NoUser, "bob"}, subject : Subjects, predicate : Predicates,
     object : {Acme}, valid_from : Times, confidence : {10}]

\* the arrays of n elements
Arrays(n) == [1..n -> BatchFacts]

\* the map with every fact put under the call's user
factsWithUser_CallUserOnly(fs, uid, first_id, metadata) ==
    [i \in 1..Len(fs) |->
        FactRow(first_id + i - 1, uid, fs[i].subject,
                fs[i].predicate, fs[i].object, fs[i].valid_from, fs[i].confidence, metadata)]

\* facts.map(f => ({...f, user_id: f.user_id || (uid ?? undefined)}))
factsWithUser(fs, uid, first_id, metadata) ==
    [i \in 1..Len(fs) |->
        FactRow(first_id + i - 1, EffectiveUser(fs[i].user_id, uid), fs[i].subject,
                fs[i].predicate, fs[i].object, fs[i].valid_from, fs[i].confidence, metadata)]

addFacts(fs, user_id, default_user) ==
    LET uid == EffectiveUser(user_id, default_user)
    IN /\ nextId + Len(fs) <= MaxFacts + 1
       /\ facts' = batch_insert_facts(facts, factsWithUser(fs, uid, nextId, NoMeta))
       /\ nextId' = nextId + Len(fs)
       /\ UNCHANGED <<pending, mems, nextMem, vectors, cache, waypoints, checked>>

\* updateFact writing the change by taking the fact out and inserting it anew
updateFactOutcome_Reinsert(F, id, confidence, metadata, user_id, default_user) ==
    LET uid == EffectiveUser(user_id, default_user)
        err == OwnershipError(F, id, uid)
    IN IF err # NoError THEN Outcome(F, err)
       ELSE Outcome(batch_insert_facts(delete_fact(F, id),
                        [i \in 1..Cardinality({r \in F : r.id = id}) |->
                            CHOOSE r \in update_fact(F, id, confidence, metadata) : r.id = id]),
                    NoError)

updateFactOutcome(F, id, confidence, metadata, user_id, default_user) ==
    LET uid == EffectiveUser(user_id, default_user)
        err == OwnershipError(F, id, uid)
    IN IF err # NoError THEN Outcome(F, err)
       ELSE Outcome(update_fact(F, id, confidence, metadata), NoError)

updateFact(id, confidence, metadata, user_id, default_user) ==
    /\ facts' = updateFactOutcome(facts, id, confidence, metadata, user_id, default_user).facts
    /\ UNCHANGED <<nextId, pending, mems, nextMem, vectors, cache, waypoints, checked>>

invalidateFactOutcome(F, id, valid_to, user_id, default_user) ==
    LET uid == EffectiveUser(user_id, default_user)
        err == OwnershipError(F, id, uid)
    IN IF err # NoError THEN Outcome(F, err)
       ELSE Outcome(invalidate_fact(F, id, valid_to), NoError)

invalidateFact(id, valid_to, user_id, default_user) ==
    /\ facts' = invalidateFactOutcome(facts, id, valid_to, user_id, default_user).facts
    /\ UNCHANGED <<nextId, pending, mems, nextMem, vectors, cache, waypoints, checked>>

deleteFactOutcome(F, id, user_id, default_user) ==
    LET uid == EffectiveUser(user_id, default_user)
        err == OwnershipError(F, id, uid)
    IN IF err # NoError THEN Outcome(F, err)
       ELSE Outcome(delete_fact(F, id), NoError)

deleteFact(id, user_id, default_user) ==
    /\ facts' = deleteFactOutcome(facts, id, user_id, default_user).facts
    /\ UNCHANGED <<nextId, pending, mems, nextMem, vectors, cache, waypoints, checked>>

\* the sector classifier: the primary sector of a content, episodic on a
\* temporal keyword, semantic otherwise
PrimarySector(content) == IF content = "yesterday" THEN "episodic" ELSE "semantic"

\* a memories row, as far as ownership and sector go
MemRow(id, uid, primary_sector) ==
    [id |-> id, user_id |-> uid, primary_sector |-> primary_sector]

\* add_hsg_memory(content, tags, meta, uid): persist one memory row
add_hsg_memory(M, id, uid, content) == M \cup {MemRow(id, uid, PrimarySector(content))}

\* q.clear_all.run(): "delete all memories, vectors, and waypoints"
clear_all(M) == {}

\* Memory.add(content, opts) while fewer than max memories were added
addUpTo(max, content, user_id, default_user) ==
    LET uid == EffectiveUser(user_id, default_user)
    IN /\ nextMem <= max
       /\ mems' = add_hsg_memory(mems, nextMem, uid, content)
       /\ nextMem' = nextMem + 1
       /\ UNCHANGED <<facts, nextId, pending, vectors, cache, waypoints, checked>>

add(content, user_id, default_user) == addUpTo(MaxMems, content, user_id, default_user)

\* wipe(): the memories left by a wipe on an instance of default_user
wipeOutcome(M, default_user) == clear_all(M)

wipe(default_user) ==
    /\ mems' = wipeOutcome(mems, default_user)
    /\ vectors' = {}
    /\ waypoints' = {}
    /\ UNCHANGED <<facts, nextId, pending, nextMem, cache, checked>>

\* the validation with the content check made for type 'contextual' alone
StoreError_ContextualOnly(content, type, fs_given, fs) ==
    IF type = "factual" /\ (~fs_given \/ Len(fs) = 0)
    THEN <<"Facts array is required when type is 'factual'">>
    ELSE IF type = "contextual" /\ content = ""
    THEN <<"Content is required when type is '", type, "'">>
    ELSE NoError

\* store(): "Validate requirements", the error thrown before any write
StoreError(content, type, fs_given, fs) ==
    IF type = "factual" /\ (~fs_given \/ Len(fs) = 0)
    THEN <<"Facts array is required when type is 'factual'">>
    ELSE IF type \in {"contextual", "both"} /\ content = ""
    THEN <<"Content is required when type is '", type, "'">>
    ELSE NoError

\* factsToInsert with each fact's metadata left without the store's meta
factsToInsert_NoMeta(fs, uid, first_id, metadata) ==
    [i \in 1..Len(fs) |->
        FactRow(first_id + i - 1, uid, fs[i].subject, fs[i].predicate, fs[i].object,
                fs[i].valid_from, fs[i].confidence, NoMeta)]

\* opts.facts.map(f => ({..., metadata: meta, user_id: uid ?? undefined}))
factsToInsert(fs, uid, first_id, metadata) ==
    [i \in 1..Len(fs) |->
        FactRow(first_id + i - 1, uid, fs[i].subject, fs[i].predicate, fs[i].object,
                fs[i].valid_from, fs[i].confidence, metadata)]

\* what store() leaves behind on fact table F and memory table M, the new
\* rows taking their ids from first_id and mem_id: the two tables, whether a
\* memory was written and how many facts, and the error thrown
storeOutcome(F, M, first_id, mem_id, content, type, fs_given, fs, user_id, default_user) ==
    LET uid == EffectiveUser(user_id, default_user)
        err == StoreError(content, type, fs_given, fs)
        hsg == err = NoError /\ type \in {"contextual", "both"}
        temporal == err = NoError /\ type \in {"factual", "both"} /\ fs_given
        meta == IF type = "both" THEN Meta("none", mem_id) ELSE NoMeta
    IN [mems |-> IF hsg THEN add_hsg_memory(M, mem_id, uid, content) ELSE M,
        facts |-> IF temporal
                  THEN batch_insert_facts(F, factsToInsert(fs, uid, first_id, meta))
                  ELSE F,
        hsg |-> hsg,
        temporal |-> IF temporal THEN Len(fs) ELSE 0,
        err |-> err]

store(content, type, fs_given, fs, user_id, default_user) ==
    LET out == storeOutcome(facts, mems, nextId, nextMem, content, type, fs_given, fs,
                            user_id, default_user)
    IN /\ out.hsg => nextMem <= MaxMems
       /\ nextId + out.temporal <= MaxFacts + 1
       /\ mems' = out.mems
       /\ nextMem' = IF out.hsg THEN nextMem + 1 ELSE nextMem
       /\ facts' = out.facts
       /\ nextId' = nextId + out.temporal
       /\ UNCHANGED <<pending, vectors, cache, waypoints, checked>>

\* hsg_query(query, k, filters): the memories the filters admit, text
\* relevance and the cut at k left out
hsg_query(M, filters_user_id) ==
    {m \in M : filters_user_id # NoUser => m.user_id = filters_user_id}

\* an omitted min_confidence option
NoMinConfidence == Null

\* queryFacts(opts): `min_confidence ?? 0.0`, `opts?.user_id || this.default_user`
queryFacts(F, subject, predicate, object, at, min_confidence, user_id, default_user) ==
    query_facts_at_time(F, subject, predicate, object, at,
                        IF min_confidence = NoMinConfidence THEN 0 ELSE min_confidence,
                        EffectiveUser(user_id, default_user))

\* an omitted type option
NoType == ""
RecallTypes == {NoType, "contextual", "factual", "unified"}

\* the RecallResult: has_contextual and has_factual say which keys it has
RecallResult(has_contextual, contextual, has_factual, factual) ==
    [has_contextual |-> has_contextual, contextual |-> contextual,
     has_factual |-> has_factual, factual |-> factual]

\* recall with the factual query scoped by opts.user_id alone
recall_PerCallUserOnly(F, M, type_arg, subject, predicate, object, at, user_id, default_user) ==
    LET type == IF type_arg = NoType THEN "unified" ELSE type_arg
        hsg == type \in {"contextual", "unified"}
        temporal == type \in {"factual", "unified"}
    IN RecallResult(hsg, IF hsg THEN hsg_query(M, user_id) ELSE {},
                    temporal,
                    IF temporal
                    THEN query_facts_at_time(F, subject, predicate, object, at, 0, user_id)
                    ELSE {})

recall(F, M, type_arg, subject, predicate, object, at, user_id, default_user) ==
    LET type == IF type_arg = NoType THEN "unified" ELSE type_arg
        uid == EffectiveUser(user_id, default_user)
        hsg == type \in {"contextual", "unified"}
        temporal == type \in {"factual", "unified"}
    IN RecallResult(hsg, IF hsg THEN hsg_query(M, uid) ELSE {},
                    temporal,
                    IF temporal
                    THEN query_facts_at_time(F, subject, predicate, object, at, 0, uid)
                    ELSE {})

\* ----------------------------------------------- interleaved insert_fact
\* addFact up to the suspension point after insert_fact's first storage call
addFactBegin(subject, predicate, object, valid_from, confidence, metadata, user_id, default_user) ==
    LET uid == EffectiveUser(user_id, default_user)
    IN /\ nextId <= MaxFacts
       /\ facts' = close_open_facts(facts, uid, subject, predicate, valid_from)
       /\ pending' = pending \cup
              {FactRow(nextId, uid, subject, predicate, object, valid_from, confidence, metadata)}
       /\ nextId' = nextId + 1
       /\ UNCHANGED <<mems, nextMem, vectors, cache, waypoints, checked>>

\* the rest of addFact: insert_fact's second storage call, the INSERT
addFactEnd(row) ==
    /\ row \in pending
    /\ facts' = facts \cup {row}
    /\ pending' = pending \ {row}
    /\ UNCHANGED <<nextId, mems, nextMem, vectors, cache, waypoints, checked>>

\* ------------------------------------------- interleaved fact mutations
\* a mutation call past its ownership check, with the arguments of its
\* storage call
CheckedCall(op, id, uid, confidence, metadata, valid_to) ==
    [op |-> op, id |-> id, uid |-> uid, confidence |-> confidence,
     metadata |-> metadata, valid_to |-> valid_to]

\* the first storage call without a check: every call goes on
checkOwnership_Skipped(call) ==
    /\ Cardinality(checked) < MaxInFlight
    /\ checked' = checked \cup {call}
    /\ UNCHANGED <<facts, nextId, pending, mems, nextMem, vectors, cache, waypoints>>

\* updateFact, invalidateFact or deleteFact up to the suspension point after
\* `get_async('SELECT user_id FROM temporal_facts WHERE id = ?')`: the call
\* goes on only if the check threw nothing
checkOwnership(call) ==
    /\ Cardinality(checked) < MaxInFlight
    /\ OwnershipError(facts, call.id, call.uid) = NoError
    /\ checked' = checked \cup {call}
    /\ UNCHANGED <<facts, nextId, pending, mems, nextMem, vectors, cache, waypoints>>

updateFactBegin(id, confidence, metadata, user_id, default_user) ==
    checkOwnership(CheckedCall("update", id, EffectiveUser(user_id, default_user),
                               confidence, metadata, Null))

invalidateFactBegin(id, valid_to, user_id, default_user) ==
    checkOwnership(CheckedCall("invalidate", id, EffectiveUser(user_id, default_user),
                               NoConfidence, Undefined, valid_to))

deleteFactBegin(id, user_id, default_user) ==
    checkOwnership(CheckedCall("delete", id, EffectiveUser(user_id, default_user),
                               NoConfidence, Undefined, Null))

\* the second storage call of a checked call: update_fact, invalidate_fact
\* or delete_fact by id
Mutation(F, call) ==
    IF call.op = "update" THEN update_fact(F, call.id, call.confidence, call.metadata)
    ELSE IF call.op = "invalidate" THEN invalidate_fact(F, call.id, call.valid_to)
    ELSE delete_fact(F, call.id)

mutationEnd(call) ==
    /\ call \in checked
    /\ facts' = Mutation(facts, call)
    /\ checked' = checked \ {call}
    /\ UNCHANGED <<nextId, pending, mems, nextMem, vectors, cache, waypoints>>

\* ------------------------------------------------------------ get and list
\* the null a lookup returns when no row matches
NoRow == [id |-> Null]

\* getVectorsById(id): `select sector,v,dim from vectors where id=$1`
getVectorsById(V, id) ==
    {[sector |-> r.sector, vector |-> r.v, dim |-> r.dim] : r \in {x \in V : x.id = id}}

\* Memory.get(id, opts): `q.get_mem.get(id)`, null when there is no such row,
\* `{ ...mem, vectors }` under include_vectors; the instance's user is not read
get(M, V, id, include_vectors, default_user) ==
    IF ~\E m \in M : m.id = id
    THEN NoRow
    ELSE LET mem == CHOOSE m \in M : m.id = id
         IN IF include_vectors
            THEN [id |-> mem.id, user_id |-> mem.user_id, primary_sector |-> mem.primary_sector,
                  vectors |-> getVectorsById(V, id)]
            ELSE mem

\* the rows of R, newest first (`order by created_at desc`)
RECURSIVE NewestFirst(_)
NewestFirst(R) ==
    IF R = {} THEN <<>>
    ELSE LET newest == CHOOSE m \in R : \A n \in R : n.id <= m.id
         IN <<newest>> \o NewestFirst(R \ {newest})

\* `limit ? offset ?`
Page(s, limit, offset) ==
    SubSeq(s, offset + 1, IF Len(s) < offset + limit THEN Len(s) ELSE offset + limit)

\* q.all_mem_by_user.all(uid, limit, offset)
all_mem_by_user(M, uid, limit, offset) ==
    Page(NewestFirst({m \in M : m.user_id = uid}), limit, offset)

\* q.all_mem_by_sector.all(sector, limit, offset)
all_mem_by_sector(M, sector, limit, offset) ==
    Page(NewestFirst({m \in M : m.primary_sector = sector}), limit, offset)

\* q.all_mem.all(limit, offset)
all_mem(M, limit, offset) == Page(NewestFirst(M), limit, offset)

NoSector == ""
NoLimit == 0
ListLimits == {NoLimit, 1, 2}
ListOffsets == {0, 1}
DefaultLimit == 10

\* Memory.list(opts): `opts?.limit || 10`, `opts?.offset || 0`; with a user,
\* the user's page is fetched and then filtered by sector; without one, the
\* page of the sector, or of all memories, is fetched
list(M, user_id, default_user, limit_arg, offset, sector) ==
    LET limit == IF limit_arg # NoLimit THEN limit_arg ELSE DefaultLimit
        uid == EffectiveUser(user_id, default_user)
    IN IF uid # NoUser
       THEN IF sector # NoSector
            THEN SelectSeq(all_mem_by_user(M, uid, limit, offset),
                           LAMBDA row : row.primary_sector = sector)
            ELSE all_mem_by_user(M, uid, limit, offset)
       ELSE IF sector # NoSector
            THEN all_mem_by_sector(M, sector, limit, offset)
            ELSE all_mem(M, limit, offset)

\* ------------------------------------------------------- query result cache
Queries == {"coffee", "tea"}
SearchLimits == {10, 20}

\* the cache key of hsg_query: the query text and k, without the user id
CacheKey(query, k, filters_user_id) == <<query, k>>

\* hsg_query behind its cache, always enabled: a live entry under the key is
\* returned as it is, anything else is computed and cached
hsg_query_cached(C, M, query, k, filters_user_id) ==
    LET key == CacheKey(query, k, filters_user_id)
    IN IF \E e \in C : e.key = key
       THEN [result |-> (CHOOSE e \in C : e.key = key).result, cache |-> C]
       ELSE [result |-> hsg_query(M, filters_user_id),
             cache |-> C \cup {[key |-> key, result |-> hsg_query(M, filters_user_id)]}]

\* Memory.search(query, opts): `if (uid) f.user_id = uid`, then hsg_query
searchOutcome(C, M, query, k, user_id, default_user) ==
    hsg_query_cached(C, M, query, k, EffectiveUser(user_id, default_user))

search(query, k, user_id, default_user) ==
    /\ cache' = searchOutcome(cache, mems, query, k, user_id, default_user).cache
    /\ UNCHANGED <<facts, nextId, pending, mems, nextMem, vectors, waypoints, checked>>

\* an entry reaches its TTL of 60 s
cacheExpire(e) ==
    /\ e \in cache
    /\ cache' = cache \ {e}
    /\ UNCHANGED <<facts, nextId, pending, mems, nextMem, vectors, waypoints, checked>>

\* --------------------------------------------------------- waypoint graph
WpNodes == {"m1", "m2", "m3", "m4"}
MaxExps == {1, 2}

\* a similarity link from memory src to memory dst
link_waypoint(src, dst) ==
    /\ src # dst
    /\ waypoints' = waypoints \cup {<<src, dst>>}
    /\ UNCHANGED <<facts, nextId, pending, mems, nextMem, vectors, cache, checked>>

\* the neighbors of cur
Neighbors(W, cur) == {e[2] : e \in {d \in W : d[1] = cur}}

RECURSIVE SeqOf(_)
SeqOf(S) == IF S = {} THEN <<>>
            ELSE LET x == CHOOSE y \in S : TRUE IN <<x>> \o SeqOf(S \ {x})

\* the loop of expand_via_waypoints: `while (q.length > 0 && exp_cnt < max_exp)`
\* takes the head of the queue and adds every neighbor not yet visited,
\* counting each; the limit is looked at again only before the next node
RECURSIVE ExpandLoop(_, _, _, _, _)
ExpandLoop(W, q, vis, exp_cnt, max_exp) ==
    IF q = <<>> \/ exp_cnt >= max_exp
    THEN [vis |-> vis, exp_cnt |-> exp_cnt]
    ELSE LET neighs == Neighbors(W, Head(q)) \ vis
         IN ExpandLoop(W, Tail(q) \o SeqOf(neighs), vis \cup neighs,
                       exp_cnt + Cardinality(neighs), max_exp)

\* expand_via_waypoints(init_res, max_exp): the seeds and the neighbors visited
expand_via_waypoints(W, init_res, max_exp) ==
    ExpandLoop(W, SeqOf(init_res), init_res, 0, max_exp)

\* ------------------------------------------------------ PostgresVectorStore
Anonymous == "anonymous"
Sectors == {"semantic", "episodic"}
VecIds == {"m1", "m2", "m3"}
\* embeddings, all of one length and one norm
Vecs == {<<5, 0>>, <<3, 4>>}
TopKs == {1, 2}

\* a vectors row: primary key (id, sector)
VecRow(id, sector, user_id, v, dim) ==
    [id |-> id, sector |-> sector, user_id |-> user_id, v |-> v, dim |-> dim]

\* storeVector with `on conflict(id,sector) do nothing`
storeVector_KeepFirst(V, id, sector, vector, dim, user_id) ==
    IF \E r \in V : r.id = id /\ r.sector = sector
    THEN V
    ELSE V \cup {VecRow(id, sector, IF user_id # NoUser THEN user_id ELSE Anonymous,
                        vector, dim)}

\* storeVector: `insert ... on conflict(id,sector) do update set
\* user_id=excluded.user_id, v=excluded.v, dim=excluded.dim`, the user
\* bound as `user_id || "anonymous"`
storeVector(V, id, sector, vector, dim, user_id) ==
    {r \in V : ~(r.id = id /\ r.sector = sector)}
        \cup {VecRow(id, sector, IF user_id # NoUser THEN user_id ELSE Anonymous,
                     vector, dim)}

\* deleteVector with `where id=$1`
deleteVector_AllSectors(V, id, sector) == {r \in V : r.id # id}

\* deleteVector: `delete from vectors where id=$1 and sector=$2`
deleteVector(V, id, sector) == {r \in V : ~(r.id = id /\ r.sector = sector)}

\* deleteVectors: `delete from vectors where id=$1`
deleteVectors(V, id) == {r \in V : r.id # id}

RECURSIVE Dot(_, _)
Dot(a, b) == IF a = <<>> THEN 0 ELSE Head(a) * Head(b) + Dot(Tail(a), Tail(b))

\* the integer square root
ISqrt(n) == CHOOSE r \in 0..n : r * r <= n /\ (r + 1) * (r + 1) > n

\* `1 - (v <=> $1::vector)`: the cosine similarity, in hundredths
Score(v, queryVec) == (100 * Dot(v, queryVec)) \div ISqrt(Dot(v, v) * Dot(queryVec, queryVec))

\* the where clause without its user condition
SearchCond_SectorOnly(r, sector, user_id) == r.sector = sector

\* the where clause of searchSimilar, the user condition added `if (user_id)`
SearchCond(r, sector, user_id) ==
    /\ r.sector = sector
    /\ user_id # NoUser => r.user_id = user_id

\* the rows of R in any order `order by v <=> $1` allows, ties in any order
OrderedByDistance(R, queryVec) ==
    {s \in [1..Cardinality(R) -> R] :
        /\ \A i, j \in 1..Cardinality(R) : i # j => s[i] # s[j]
        /\ \A i, j \in 1..Cardinality(R) :
               i < j => Score(s[i].v, queryVec) >= Score(s[j].v, queryVec)}

\* `limit`
Limit(s, k) == IF Len(s) <= k THEN s ELSE SubSeq(s, 1, k)

\* searchSimilar(sector, queryVec, topK, user_id): every result the query
\* can produce. The HNSW index scan hands the filter a candidate set that may
\* miss rows, so the filtered rows are any subset of the matching rows.
searchSimilar(V, sector, queryVec, topK, user_id) ==
    LET matching == {r \in V : SearchCond(r, sector, user_id)}
    IN UNION {{[i \in 1..Len(Limit(s, topK)) |->
                   [id |-> s[i].id, score |-> Score(s[i].v, queryVec)]] :
               s \in OrderedByDistance(found, queryVec)} :
              found \in SUBSET matching}

storeVectorStep(id, sector, vector, dim, user_id) ==
    /\ Cardinality(storeVector(vectors, id, sector, vector, dim, user_id)) <= MaxVectors
    /\ vectors' = storeVector(vectors, id, sector, vector, dim, user_id)
    /\ UNCHANGED <<facts, nextId, pending, mems, nextMem, cache, waypoints, checked>>

deleteVectorStep(id, sector) ==
    /\ vectors' = deleteVector(vectors, id, sector)
    /\ UNCHANGED <<facts, nextId, pending, mems, nextMem, cache, waypoints, checked>>

deleteVectorsStep(id) ==
    /\ vectors' = deleteVectors(vectors, id)
    /\ UNCHANGED <<facts, nextId, pending, mems, nextMem, cache, waypoints, checked>>

\* ---------------------------------------------------------- specifications
Init ==
    /\ facts = {}
    /\ nextId = 1
    /\ pending = {}
    /\ mems = {}
    /\ nextMem = 1
    /\ vectors = {}
    /\ cache = {}
    /\ waypoints = {}
    /\ checked = {}

FactIds == 1..MaxFacts
Contents == {"", "text"}
StoreTypes == {"contextual", "factual", "both"}
\* <<per-call user_id, instance default_user>>: the per-call id wins, the
\* default applies when the call names none, neither gives an unscoped call
Callers == {<<"alice", "bob">>, <<NoUser, "bob">>, <<NoUser, NoUser>>}
\* <<object, confidence>> of a new fact, and the confidence of an update
\* (omitted or given), for the calls that run one at a time
Payloads == {<<Acme, 10>>}
Updates == {NoConfidence, 10}
\* the same for the calls that interleave
ConcPayloads == {<<Acme, 10>>, <<Globex, 5>>}
ConcUpdates == {NoConfidence, 5}

\* the calls on the temporal graph behind the Memory facade, each running
\* from its first storage call to its last without another call in between
Calls(payloads, updates) ==
    \/ \E s \in Subjects, p \in Predicates, op \in payloads, vf \in Times, c \in Callers :
          addFact(s, p, op[1], vf, op[2], NoMeta, c[1], c[2])
    \/ \E n \in 1..(MaxFacts + 1 - nextId) : \E fs \in Arrays(n) : \E c \in Callers :
          addFacts(fs, c[1], c[2])
    \/ \E id \in FactIds, cf \in updates, m \in {Undefined}, c \in Callers :
          updateFact(id, cf, m, c[1], c[2])
    \/ \E id \in FactIds, vt \in Times, c \in Callers :
          invalidateFact(id, vt, c[1], c[2])
    \/ \E id \in FactIds, c \in Callers :
          deleteFact(id, c[1], c[2])
    \/ \E n \in 0..(MaxFacts + 1 - nextId) : \E fs \in Arrays(n) : \E c \in Callers :
          store("", "factual", TRUE, fs, c[1], c[2])

Next == Calls(Payloads, Updates)

Spec == Init /\ [][Next]_vars

\* the same calls, with addFact also running as two steps that interleave
NextConc ==
    \/ Calls(ConcPayloads, ConcUpdates)
    \/ \E s \in Subjects, p \in Predicates, op \in ConcPayloads, vf \in Times, c \in Callers :
          addFactBegin(s, p, op[1], vf, op[2], NoMeta, c[1], c[2])
    \/ \E row \in pending :
          addFactEnd(row)

SpecConc == Init /\ [][NextConc]_vars

\* the memories behind the Memory facade: add, store and wipe
NextMem ==
    \/ \E content \in Contents, c \in Callers :
          add(content, c[1], c[2])
    \/ \E content \in Contents, type \in StoreTypes, given \in BOOLEAN :
          \E n \in 0..1 : \E fs \in Arrays(n) : \E c \in Callers :
              store(content, type, given, fs, c[1], c[2])
    \/ \E du \in UserArgs :
          wipe(du)

SpecMem == Init /\ [][NextMem]_vars

\* the calls that shape what the fact queries read: addFact gives facts
\* their owners, objects, confidences and valid_from and closes the facts it
\* supersedes, deleteFact removes them
NextRead ==
    \/ \E s \in Subjects, p \in Predicates, op \in ConcPayloads, vf \in Times, c \in Callers :
          addFact(s, p, op[1], vf, op[2], NoMeta, c[1], c[2])
    \/ \E id \in FactIds, c \in Callers :
          deleteFact(id, c[1], c[2])

SpecRead == Init /\ [][NextRead]_vars

\* addFact calls issued concurrently: each runs as its two storage calls,
\* which the storage serves in any order that keeps each call's own order
NextInserts ==
    \/ \E s \in Subjects, p \in Predicates, op \in ConcPayloads, vf \in Times, c \in Callers :
          addFactBegin(s, p, op[1], vf, op[2], NoMeta, c[1], c[2])
    \/ \E row \in pending :
          addFactEnd(row)

SpecInserts == Init /\ [][NextInserts]_vars

\* the elements of StoreOptions.facts, which carry no user_id
StoreFacts ==
    [user_id : {NoUser}, subject : Subjects, predicate : Predicates,
     object : {Acme}, valid_from : Times, confidence : {10}]

\* store() calls of scoped callers, of every type, with and without content
\* and facts, and wipe(): the writes that recall reads back
NextUnified ==
    \/ \E content \in Contents, type \in StoreTypes, given \in BOOLEAN, n \in 0..1 :
          \E fs \in [1..n -> StoreFacts], c \in {<<"alice", "bob">>, <<NoUser, "bob">>} :
              /\ given \/ n = 0
              /\ store(content, type, given, fs, c[1], c[2])
    \/ wipe("bob")

SpecUnified == Init /\ [][NextUnified]_vars

\* the facts updateFact works on: addFact stores them, open or superseded,
\* updateFact changes their confidence and metadata
NextUpdate ==
    \/ \E s \in Subjects, p \in Predicates, op \in Payloads, vf \in Times, c \in Callers :
          addFact(s, p, op[1], vf, op[2], NoMeta, c[1], c[2])
    \/ \E id \in FactIds, cf \in ConcUpdates, m \in Metas \cup {Undefined}, c \in Callers :
          updateFact(id, cf, m, c[1], c[2])

SpecUpdate == Init /\ [][NextUpdate]_vars

\* the vector store alone: upserts and deletes of both users and of no user
NextVector ==
    \/ \E id \in VecIds, sector \in Sectors, v \in Vecs, u \in UserArgs :
           storeVectorStep(id, sector, v, Len(v), u)
    \/ \E id \in VecIds, sector \in Sectors : deleteVectorStep(id, sector)
    \/ \E id \in VecIds : deleteVectorsStep(id)

SpecVector == Init /\ [][NextVector]_vars

\* memories of both users and searches of both users, within and past the TTL
NextSearch ==
    \/ \E c \in {"text"}, u \in Users : add(c, u, NoUser)
    \/ \E query \in Queries, k \in SearchLimits, cl \in Callers :
           search(query, k, cl[1], cl[2])
    \/ \E e \in cache : cacheExpire(e)

SpecSearch == Init /\ [][NextSearch]_vars

\* the waypoint graph as memories get linked
NextWaypoints == \E src \in WpNodes, dst \in WpNodes : link_waypoint(src, dst)

SpecWaypoints == Init /\ [][NextWaypoints]_vars

\* the memories table as both users and callers without a user add memories
\* of both sectors
ListContents == {"text", "yesterday"}

NextList ==
    \E content \in ListContents, c \in Callers :
        addUpTo(MaxListed, content, c[1], c[2])

SpecList == Init /\ [][NextList]_vars

\* updateFact, invalidateFact and deleteFact as two steps each, interleaved
\* with one another and with the addFact and deleteFact of any caller; the
\* two-step calls are those of a named user, the ones that make the check
NamedCallers == {c \in Callers : EffectiveUser(c[1], c[2]) # NoUser}

NextRace ==
    \/ \E s \in Subjects, p \in Predicates, op \in Payloads, c \in Callers :
           addFact(s, p, op[1], 0, op[2], NoMeta, c[1], c[2])
    \/ \E id \in FactIds, c \in Callers :
           deleteFact(id, c[1], c[2])
    \/ \E id \in FactIds, c \in NamedCallers :
           updateFactBegin(id, 5, Undefined, c[1], c[2])
    \/ \E id \in FactIds, c \in NamedCallers :
           invalidateFactBegin(id, MaxTime, c[1], c[2])
    \/ \E id \in FactIds, c \in NamedCallers :
           deleteFactBegin(id, c[1], c[2])
    \/ \E call \in checked :
           mutationEnd(call)

SpecRace == Init /\ [][NextRace]_vars

\* the batch writes: addFacts and store('factual') of every caller, with
\* facts that name a user of their own and facts that do not, on tables
\* whose facts are open or invalidated
NextBatch ==
    \/ \E n \in 1..(MaxFacts + 1 - nextId) : \E fs \in Arrays(n) : \E c \in Callers :
           addFacts(fs, c[1], c[2])
    \/ \E n \in 1..(MaxFacts + 1 - nextId) : \E fs \in Arrays(n) : \E c \in Callers :
           store("", "factual", TRUE, fs, c[1], c[2])
    \/ \E id \in FactIds, vt \in Times, c \in Callers :
           invalidateFact(id, vt, c[1], c[2])

SpecBatch == Init /\ [][NextBatch]_vars

\* facts and vectors of both users and of no user, as addFact and storeVector
\* of every caller leave them
NextUnscoped ==
    \/ \E s \in Subjects, p \in Predicates, op \in Payloads, vf \in Times, c \in Callers :
           addFact(s, p, op[1], vf, op[2], NoMeta, c[1], c[2])
    \/ \E id \in {"m1", "m2"}, v \in {<<3, 4>>}, c \in Callers :
           storeVectorStep(id, "semantic", v, Len(v), EffectiveUser(c[1], c[2]))

SpecUnscoped == Init /\ [][NextUnscoped]_vars

\* ------------------------------------------------------------ properties
\* the arguments the read calls are tried with
StrArg(S) == S \cup {NoStr}
TimeArgs == Times \cup {NoTime}
Fields == {"subject", "predicate", "object"}
\* the users a caller of Callers can be scoped to
ScopedUsers == {EffectiveUser(c[1], c[2]) : c \in Callers} \ {NoUser}
Ids(fs) == {f.id : f \in fs}

\* C1: with user u in effect (the per-call user_id or the instance default),
\* queryFacts, getCurrentFact, queryFactsInRange, getFactsBySubject and
\* searchFacts return only facts whose user_id is u.
C1_ReadsAreUserScoped ==
    \A u \in ScopedUsers :
        /\ \A s \in {NoStr, John}, p \in {NoStr, WorksAt}, o \in {NoStr, Acme},
              t \in Times, mc \in {0, 10} :
              \A f \in query_facts_at_time(facts, s, p, o, t, mc, u) : f.user_id = u
        /\ \A s \in Subjects, p \in Predicates :
              \A f \in get_current_fact(facts, s, p, u) : f.user_id = u
        /\ \A s \in {NoStr, John}, p \in {NoStr, WorksAt}, from \in TimeArgs, to \in TimeArgs :
              \A f \in query_facts_in_range(facts, s, p, from, to, 0, u) : f.user_id = u
        /\ \A s \in Subjects, t \in Times, h \in BOOLEAN :
              \A f \in get_facts_by_subject(facts, s, t, h, u) : f.user_id = u
        /\ \A fld \in Fields, t \in Times, fold \in BOOLEAN :
              \A f \in search_facts(facts, <<"_">>, fld, t, u, fold) : f.user_id = u

\* alice, bob and no one own facts active at the same instant, one of them
\* closed, and alice's queries return hers only
C1_Witness ==
    \E t \in Times :
        /\ \E r \in facts : r.user_id = "bob" /\ ActiveAt(r, t)
        /\ \E r \in facts : r.user_id = "alice" /\ ActiveAt(r, t) /\ r.valid_to # Null
        /\ Cardinality(query_facts_at_time(facts, NoStr, NoStr, NoStr, t, 0, "alice")) = 1
        /\ Cardinality(search_facts(facts, <<"A">>, "object", t, "alice", FALSE)) = 1

\* C2: query_facts_at_time returns a stored fact exactly when valid_from <= t,
\* valid_to is null or t < valid_to (half-open), every given pattern field is
\* equal, confidence >= min_conf and the user matches when one is given.
C2_AsOfQueryIsHalfOpen ==
    \A s \in StrArg(QSubjects), p \in StrArg(QPredicates), o \in StrArg(QObjects),
       t \in Times, mc \in MinConfidences, u \in UserArgs :
        \A r \in facts :
            r.id \in Ids(query_facts_at_time(facts, s, p, o, t, mc, u))
            <=> /\ r.valid_from <= t
                /\ (r.valid_to = Null \/ t < r.valid_to)
                /\ (s # NoStr => r.subject = s)
                /\ (p # NoStr => r.predicate = p)
                /\ (o # NoStr => r.object = o)
                /\ r.confidence >= mc
                /\ (u # NoUser => r.user_id = u)

\* a fact inserted at T1 and a later fact of the same user, subject and
\* predicate, with another object, inserted at T2 > T1, which closed the first
Superseded(f1, f2) ==
    /\ f1.id < f2.id
    /\ f1.user_id \in Users
    /\ f1.user_id = f2.user_id /\ f1.subject = f2.subject /\ f1.predicate = f2.predicate
    /\ f1.object # f2.object
    /\ f1.valid_from < f2.valid_from
    /\ f1.valid_to = f2.valid_from
    /\ f2.valid_to = Null

\* C3: after addFact(s, p, o1, T1) and addFact(s, p, o2, T2) by one user,
\* T1 < T2, queryFacts(s, p, at t) returns exactly the o1 fact for
\* T1 <= t < T2 and exactly the o2 fact for t >= T2, never both.
C3_SupersessionAsOf ==
    \A f1 \in facts, f2 \in facts :
        (pending = {} /\ facts = {f1, f2} /\ Superseded(f1, f2)) =>
            \A t \in Times :
                LET got == Ids(query_facts_at_time(facts, f1.subject, f1.predicate, NoStr,
                                                   t, 0, f1.user_id))
                IN /\ (f1.valid_from <= t /\ t < f2.valid_from) => got = {f1.id}
                   /\ t >= f2.valid_from => got = {f2.id}

\* r is owned by a user other than the one the caller is scoped to
Foreign(r, uid) ==
    uid # NoUser /\ r.user_id \in Users /\ r.user_id # uid

\* the outcomes of a caller's updateFact, invalidateFact and deleteFact of
\* fact id on fact table F
MutationOutcomes(F, id, c) ==
    {updateFactOutcome(F, id, cf, m, c[1], c[2]) :
        cf \in Confidences \cup {NoConfidence}, m \in Metas \cup {Undefined}}
    \cup {invalidateFactOutcome(F, id, vt, c[1], c[2]) : vt \in Times}
    \cup {deleteFactOutcome(F, id, c[1], c[2])}

\* C4: under a user scope, updateFact, invalidateFact and deleteFact of a
\* fact owned by a different user throw, and the stored facts are unchanged.
C4_ForeignMutationRejected ==
    \A c \in Callers : \A r \in facts :
        Foreign(r, EffectiveUser(c[1], c[2])) =>
            \A outcome \in MutationOutcomes(facts, r.id, c) :
                outcome.err # NoError /\ outcome.facts = facts

\* alice's fact has been closed, bob owns a fact too, and bob's calls on hers throw
C4_Witness ==
    \E r \in facts :
        /\ r.user_id = "alice" /\ r.valid_to # Null
        /\ \E q \in facts : q.user_id = "bob"
        /\ updateFactOutcome(facts, r.id, 10, Undefined, NoUser, "bob").err
               = NotFoundForUserMsg(r.id, "bob")
        /\ deleteFactOutcome(facts, r.id, NoUser, "bob").err # NoError

\* C5: for a scoped caller, the errors of updateFact, invalidateFact and
\* deleteFact for the id of another user's fact are the errors the same calls
\* give when that fact does not exist.
C5_ForeignFactNotDisclosed ==
    \A c \in Callers : \A r \in facts :
        Foreign(r, EffectiveUser(c[1], c[2])) =>
            {outcome.err : outcome \in MutationOutcomes(facts, r.id, c)}
                = {outcome.err : outcome \in MutationOutcomes(facts \ {r}, r.id, c)}

\* C6: wipe() on a Memory instance that has a user id removes only that
\* user's data; the memories of every other user are unchanged.
C6_WipeIsUserScoped ==
    \A du \in Users : \A m \in mems :
        (m.user_id \in Users /\ m.user_id # du) => m \in wipeOutcome(mems, du)

SameKey(r1, r2) ==
    r1.user_id = r2.user_id /\ r1.subject = r2.subject /\ r1.predicate = r2.predicate

\* C7: in every state reached by any sequence and any interleaving of
\* addFact, addFacts, store, invalidateFact and deleteFact, at most one stored
\* fact per (user, subject, predicate) has valid_to = null.
C7_OneOpenFactPerKey ==
    \A r1 \in facts, r2 \in facts :
        (/\ r1.user_id \in Users /\ SameKey(r1, r2)
         /\ r1.valid_to = Null /\ r2.valid_to = Null) => r1 = r2

\* C8: every stored fact whose valid_to is set has valid_from <= valid_to.
C8_ValidityIntervalOrdered ==
    \A r \in facts : r.valid_to # Null => r.valid_from <= r.valid_to

\* C9: addFact(s, p, o, opts) by user U, then getCurrentFact(s, p, U),
\* returns the fact just inserted (its id and object), whatever valid_from.
C9_AddThenGetCurrent ==
    [][\A s \in Subjects, p \in Predicates, op \in Payloads, vf \in Times, c \in Callers :
          (/\ EffectiveUser(c[1], c[2]) # NoUser
           /\ addFact(s, p, op[1], vf, op[2], NoMeta, c[1], c[2]))
          => LET got == get_current_fact(facts', s, p, EffectiveUser(c[1], c[2]))
             IN /\ Ids(got) = {nextId}
                /\ \A f \in got : f.object = op[1] /\ f.valid_from = vf]_vars

\* the open fact of a key begins before an earlier, now closed fact of the
\* key began, and getCurrentFact returns it
C9_Witness ==
    \E old \in facts, new \in facts :
        /\ old.id < new.id /\ SameKey(old, new) /\ new.user_id \in Users
        /\ old.valid_to = new.valid_from /\ new.valid_from < old.valid_from
        /\ new.valid_to = Null
        /\ Ids(get_current_fact(facts, new.subject, new.predicate, new.user_id)) = {new.id}

OpenFacts(u, s, p) ==
    {r \in facts : r.user_id = u /\ r.subject = s /\ r.predicate = p /\ r.valid_to = Null}

\* C10: get_current_fact(s, p, user) returns null exactly when (user, s, p)
\* has no open fact; otherwise the open fact of latest valid_from and, among
\* those of equal valid_from, of highest confidence.
C10_CurrentFactDeterministic ==
    \A u \in Users, s \in QSubjects, p \in QPredicates :
        LET open == OpenFacts(u, s, p)
            got == get_current_fact(facts, s, p, u)
        IN /\ got = {} <=> open = {}
           /\ \A f \in got : \A r \in open :
                 \/ r.valid_from < f.valid_from
                 \/ (r.valid_from = f.valid_from /\ r.confidence <= f.confidence)

\* C11: whenever getCurrentFact(s, p, user) returns a fact, that fact is among
\* the results of queryFacts(s, p, at = now, user): it began at or before now,
\* so an open fact whose valid_from lies in the future is not current.
C11_CurrentIsAsOfNow ==
    \A now \in Times, c \in Callers, s \in Subjects, p \in Predicates :
        LET uid == EffectiveUser(c[1], c[2])
        IN \A f \in get_current_fact(facts, s, p, uid) :
              /\ f.valid_from <= now
              /\ f.id \in Ids(query_facts_at_time(facts, s, p, NoStr, now, 0, uid))

\* the validity interval [valid_from, valid_to or +infinity) of r overlaps
\* [from, to], an omitted bound being unbounded on its side
Overlaps(r, from, to) ==
    /\ (to = NoTime \/ r.valid_from <= to)
    /\ (r.valid_to = Null \/ from = NoTime \/ from < r.valid_to)

\* the valid_from of r lies in [from, to]
BeginsIn(r, from, to) ==
    /\ (from = NoTime \/ from <= r.valid_from)
    /\ (to = NoTime \/ r.valid_from <= to)

\* C12: query_facts_in_range returns exactly the facts matching subject,
\* predicate, user and min_conf whose validity interval overlaps [from, to] or
\* whose valid_from lies in [from, to], for given and for omitted bounds.
C12_RangeQueryIsOverlapOrBegin ==
    \A s \in StrArg(QSubjects), p \in StrArg(QPredicates), from \in TimeArgs, to \in TimeArgs,
       mc \in MinConfidences, u \in UserArgs :
        \A r \in facts :
            r.id \in Ids(query_facts_in_range(facts, s, p, from, to, mc, u))
            <=> /\ (Overlaps(r, from, to) \/ BeginsIn(r, from, to))
                /\ (s # NoStr => r.subject = s)
                /\ (p # NoStr => r.predicate = p)
                /\ r.confidence >= mc
                /\ (u # NoUser => r.user_id = u)

\* C13: every fact the as-of query at t returns is returned by the range
\* query with from = to = t and the same subject, predicate, user and
\* minimum confidence.
C13_AsOfWithinRange ==
    \A s \in StrArg(QSubjects), p \in StrArg(QPredicates), t \in Times,
       mc \in MinConfidences, c \in Callers :
        LET uid == EffectiveUser(c[1], c[2])
        IN Ids(query_facts_at_time(facts, s, p, NoStr, t, mc, uid))
              \subseteq Ids(query_facts_in_range(facts, s, p, t, t, mc, uid))

\* a fact that began before t and was closed at t by the fact superseding it,
\* and the as-of query at t, with a minimum confidence, returns both
C13_Witness ==
    \E t \in Times, r \in facts, q \in facts :
        /\ r.user_id \in Users /\ SameKey(r, q)
        /\ r.valid_from < t /\ r.valid_to = t
        /\ q.valid_from = t /\ q.valid_to = Null
        /\ {r.id, q.id} \subseteq
              Ids(query_facts_at_time(facts, r.subject, r.predicate, NoStr, t, 5, r.user_id))

\* the search patterns tried: letters in either case and the LIKE wildcards
SearchPatterns == {<<"A">>, <<"a">>, <<"A", "c">>, <<"_">>, <<"%">>}

\* pat occurs in str as a literal, case-sensitive substring
Contains(str, pat) ==
    \E i \in 0..(Len(str) - Len(pat)) : SubSeq(str, i + 1, i + Len(pat)) = pat

\* C14: search_facts returns a fact only if the chosen field contains the
\* pattern as a literal, case-sensitive substring: case must match, and '%'
\* and '_' in the pattern match only themselves.
C14_SearchIsLiteralSubstring ==
    \A pat \in SearchPatterns, fld \in Fields, t \in Times, u \in UserArgs, fold \in BOOLEAN :
        \A f \in search_facts(facts, pat, fld, t, u, fold) :
            Contains(Field(f, fld), pat)

\* the stored row a returned fact was read from
StoredRow(f) == CHOOSE r \in facts : r.id = f.id

\* C15: search_facts returns at most 100 facts, every one active at t, and the
\* list is the first 100 of the full matching set sorted by confidence
\* descending, then valid_from descending.
C15_SearchCappedSortedActive ==
    \A pat \in SearchPatterns, fld \in Fields, t \in Times, u \in UserArgs, fold \in BOOLEAN :
        \A q \in search_facts_list(facts, pat, fld, t, u, fold) :
            /\ Len(q) <= 100
            /\ \A i \in 1..Len(q) :
                  LET r == StoredRow(q[i])
                  IN r.valid_from <= t /\ (r.valid_to = Null \/ t < r.valid_to)
            /\ \A i \in 1..Len(q), j \in 1..Len(q) : i < j =>
                  \/ q[i].confidence > q[j].confidence
                  \/ (q[i].confidence = q[j].confidence /\ q[i].valid_from >= q[j].valid_from)
            /\ Cardinality(search_facts(facts, pat, fld, t, u, fold)) <= 100 =>
                  {q[i].id : i \in 1..Len(q)} = Ids(search_facts(facts, pat, fld, t, u, fold))

\* f1 and f2 are all that two completed inserts of one user left: the same
\* subject, predicate and valid_from, different objects
ConflictingPair(f1, f2) ==
    /\ pending = {} /\ nextId = 3 /\ facts = {f1, f2}
    /\ f1.user_id \in Users /\ SameKey(f1, f2)
    /\ f1.valid_from = f2.valid_from
    /\ f1.object # f2.object

\* C16: find_conflicting_facts(s, p, t, user) returns every fact of
\* (user, s, p) active at t, by confidence descending; when two concurrent
\* inserts of the same valid_from and different objects for one (s, p) have
\* completed, both facts are stored and both are returned.
C16_ConflictsReturned ==
    /\ \A u \in Users, s \in Subjects, p \in Predicates, t \in Times :
          \A q \in find_conflicting_facts_list(facts, s, p, t, u) :
              /\ \A r \in facts :
                    (/\ r.user_id = u /\ r.subject = s /\ r.predicate = p
                     /\ r.valid_from <= t /\ (r.valid_to = Null \/ t < r.valid_to))
                    => \E i \in 1..Len(q) : q[i].id = r.id
              /\ \A i \in 1..Len(q), j \in 1..Len(q) :
                    i < j => q[i].confidence >= q[j].confidence
    /\ \A f1 \in facts, f2 \in facts :
          ConflictingPair(f1, f2) =>
              \A t \in Times : t >= f1.valid_from =>
                  \A q \in find_conflicting_facts_list(facts, f1.subject, f1.predicate,
                                                       t, f1.user_id) :
                      {f1.id, f2.id} \subseteq {q[i].id : i \in 1..Len(q)}

\* C17: recall returns only the contextual block for type 'contextual', only
\* the factual block for 'factual', both for 'unified' or no type; the factual
\* block is the as-of query on fact_pattern at `at` for the effective user,
\* whatever the contextual block holds.
C17_RecallBlocks ==
    \A type \in RecallTypes, s \in StrArg(Subjects), p \in {NoStr},
       o \in {NoStr, Acme}, at \in Times, c \in Callers :
        LET res == recall(facts, mems, type, s, p, o, at, c[1], c[2])
        IN /\ res.has_contextual <=> type \in {"contextual", "unified", NoType}
           /\ res.has_factual <=> type \in {"factual", "unified", NoType}
           /\ res.has_factual =>
                 /\ res.factual = queryFacts(facts, s, p, o, at, NoMinConfidence, c[1], c[2])
                 /\ \A f \in res.factual :
                       EffectiveUser(c[1], c[2]) # NoUser => f.user_id = EffectiveUser(c[1], c[2])
                 /\ res.factual = recall(facts, {}, type, s, p, o, at, c[1], c[2]).factual
           /\ ~res.has_factual => res.factual = {}
           /\ ~res.has_contextual => res.contextual = {}

\* alice and bob each own a fact and a memory is stored; a unified recall
\* under bob's instance default has both blocks and bob's fact alone
C17_Witness ==
    /\ \E f \in facts : f.user_id = "alice"
    /\ \E f \in facts : f.user_id = "bob"
    /\ mems # {}
    /\ \E at \in Times :
          LET res == recall(facts, mems, NoType, NoStr, NoStr, NoStr, at, NoUser, "bob")
          IN /\ res.has_contextual /\ res.has_factual
             /\ Cardinality(res.factual) = 1

\* fact table G is fact table facts with the facts of array fs inserted,
\* owned by uid and linked to memory source_memory_id
InsertedAs(G, fs, uid, source_memory_id) ==
    LET NewFacts == {f \in G : f.id \notin Ids(facts)}
    IN /\ Cardinality(NewFacts) = Len(fs)
       /\ Ids(facts) \subseteq Ids(G)
       /\ \A i \in 1..Len(fs) : \E f \in NewFacts :
             /\ f.id = nextId + i - 1
             /\ f.subject = fs[i].subject /\ f.predicate = fs[i].predicate
             /\ f.object = fs[i].object /\ f.valid_from = fs[i].valid_from
             /\ f.user_id = uid
             /\ f.metadata.source_memory_id = source_memory_id

\* C18: store with type 'contextual' inserts one memory and no fact; with
\* 'factual' the given facts and no memory; with 'both' the memory and then
\* every given fact with metadata.source_memory_id the new memory's id; all
\* under the effective user.
C18_StoreByType ==
    \A content \in Contents, type \in StoreTypes, n \in 0..1 :
        \A fs \in [1..n -> StoreFacts], c \in Callers :
            LET uid == EffectiveUser(c[1], c[2])
                out == storeOutcome(facts, mems, nextId, nextMem, content, type, TRUE, fs,
                                    c[1], c[2])
            IN out.err = NoError =>
                  /\ type = "contextual" =>
                        out.mems = mems \cup {MemRow(nextMem, uid, PrimarySector(content))} /\ out.facts = facts
                  /\ type = "factual" =>
                        out.mems = mems /\ InsertedAs(out.facts, fs, uid, NoMemory)
                  /\ type = "both" =>
                        /\ out.mems = mems \cup {MemRow(nextMem, uid, PrimarySector(content))}
                        /\ nextMem \notin {m.id : m \in mems}
                        /\ InsertedAs(out.facts, fs, uid, nextMem)

\* a store of type 'both' has linked alice's fact to the memory stored with
\* it, after an earlier store
C18_Witness ==
    \E f \in facts, m \in mems :
        /\ f.user_id = "alice" /\ m.user_id = "alice"
        /\ f.metadata.source_memory_id = m.id
        /\ f.id > 1

\* the store() calls the validation is to reject
Rejected(content, type, fs_given, fs) ==
    \/ type \in {"contextual", "both"} /\ content = ""
    \/ type = "factual" /\ (~fs_given \/ Len(fs) = 0)

\* C19: store throws before any write (no memory, no fact) when type is
\* 'contextual' or 'both' and content is empty, and when type is 'factual'
\* and the facts array is missing or empty.
C19_StoreValidatesFirst ==
    \A content \in Contents, type \in StoreTypes, given \in BOOLEAN, n \in 0..1 :
        \A fs \in [1..n -> StoreFacts], c \in Callers :
            Rejected(content, type, given, fs) =>
                LET out == storeOutcome(facts, mems, nextId, nextMem, content, type, given, fs,
                                        c[1], c[2])
                IN out.err # NoError /\ out.mems = mems /\ out.facts = facts

\* memories and facts are stored, and store() calls of each type are rejected
C19_Witness ==
    /\ mems # {} /\ facts # {}
    /\ \E fs \in [1..1 -> StoreFacts] :
          /\ StoreError("", "both", TRUE, fs) # NoError
          /\ StoreError("", "contextual", FALSE, <<>>) # NoError
          /\ StoreError("text", "factual", TRUE, <<>>) # NoError
          /\ StoreError("text", "factual", FALSE, fs) # NoError

\* r2 is r but for its confidence and metadata
SameButConfidenceAndMetadata(r, r2) ==
    r2 = [r EXCEPT !.confidence = r2.confidence, !.metadata = r2.metadata]

\* C20: updateFact(id, {confidence, metadata}) changes at most the confidence
\* and metadata of the fact with that id; its subject, predicate, object,
\* valid_from, valid_to and user_id, and every other stored fact, are unchanged.
C20_UpdateFrame ==
    \A id \in FactIds, cf \in Confidences \cup {NoConfidence}, m \in Metas \cup {Undefined},
       c \in Callers :
        LET out == updateFactOutcome(facts, id, cf, m, c[1], c[2]).facts
        IN /\ Ids(out) = Ids(facts) /\ Cardinality(out) = Cardinality(facts)
           /\ \A r \in facts :
                 IF r.id = id
                 THEN \E r2 \in out : r2.id = id /\ SameButConfidenceAndMetadata(r, r2)
                 ELSE r \in out

\* a superseded fact and the open fact after it, the first with the
\* confidence and metadata an update gave it
C20_Witness ==
    \E r \in facts, q \in facts :
        /\ r.id # q.id /\ SameKey(r, q)
        /\ r.valid_to # Null /\ q.valid_to = Null
        /\ r.confidence = 5 /\ r.metadata \in Metas
        /\ q.confidence = 10 /\ q.metadata = NoMeta


\* ---------------------------------------------------------------- C21
SameVecKey(r1, r2) == r1.id = r2.id /\ r1.sector = r2.sector

StoredAs(user_id) == IF user_id # NoUser THEN user_id ELSE Anonymous

\* C21: after any sequence of storeVector, deleteVector and deleteVectors the
\* vector store holds at most one row per (id, sector); a storeVector on any
\* (id, sector), existing or not, leaves exactly the row of its own vector,
\* dim and user under that key, and repeating the call changes nothing.
C21_UpsertLastWriteWins ==
    /\ \A r1, r2 \in vectors : SameVecKey(r1, r2) => r1 = r2
    /\ \A id \in VecIds, sector \in Sectors, v \in Vecs, u \in UserArgs :
           LET W == storeVector(vectors, id, sector, v, Len(v), u)
           IN /\ {r \in W : r.id = id /\ r.sector = sector}
                     = {VecRow(id, sector, StoredAs(u), v, Len(v))}
              /\ storeVector(W, id, sector, v, Len(v), u) = W

\* a stored row that an upsert of another user and another vector would replace
C21_Witness ==
    \E r \in vectors : \E v \in Vecs, u \in Users :
        /\ r.v # v
        /\ r.user_id # u
        /\ Cardinality(storeVector(vectors, r.id, r.sector, v, Len(v), u))
               = Cardinality(vectors)
        /\ Cardinality(vectors) >= 2


\* ---------------------------------------------------------------- C22
\* C22: deleteVector(id, sector) removes the row of that id in that sector
\* and no other row; deleteVectors(id) removes the rows of that id in every
\* sector and no row of another id; the rows left are unchanged, and a delete
\* of an absent row or id leaves the store as it was.
C22_DeleteFrame ==
    /\ \A id \in VecIds, sector \in Sectors :
           LET W == deleteVector(vectors, id, sector)
           IN /\ W \subseteq vectors
              /\ \A r \in vectors : r \in W <=> ~(r.id = id /\ r.sector = sector)
              /\ (~\E r \in vectors : r.id = id /\ r.sector = sector) => W = vectors
    /\ \A id \in VecIds :
           LET W == deleteVectors(vectors, id)
           IN /\ W \subseteq vectors
              /\ \A r \in vectors : r \in W <=> r.id # id
              /\ (~\E r \in vectors : r.id = id) => W = vectors

\* an id with rows in two sectors beside a row of another id, and an absent key
C22_Witness ==
    /\ \E r1, r2, r3 \in vectors :
           /\ r1.id = r2.id
           /\ r1.sector # r2.sector
           /\ r3.id # r1.id
           /\ deleteVector(vectors, r1.id, r1.sector) = vectors \ {r1}
           /\ deleteVectors(vectors, r1.id) = vectors \ {r1, r2}
    /\ \E id \in VecIds, sector \in Sectors :
           ~\E r \in vectors : r.id = id /\ r.sector = sector


\* ---------------------------------------------------------------- C23
\* C23: every result searchSimilar(sector, q, k, user) can produce for a
\* named user holds at most k pairs (id, score), each the id and score of a
\* stored row of that sector owned by that user, in non-increasing score
\* order; a row of another user or of another sector is never returned.
C23_SearchIsSectorAndUserScoped ==
    \A sector \in Sectors, q \in Vecs, k \in TopKs, u \in Users :
        \A res \in searchSimilar(vectors, sector, q, k, u) :
            /\ Len(res) <= k
            /\ \A i \in 1..Len(res) :
                   \E r \in vectors :
                       /\ r.id = res[i].id
                       /\ r.sector = sector
                       /\ r.user_id = u
                       /\ res[i].score = Score(r.v, q)
            /\ \A i, j \in 1..Len(res) : i < j => res[i].score >= res[j].score
            /\ \A i, j \in 1..Len(res) : i # j => res[i].id # res[j].id

\* alice owns two rows of one sector at different distances from the query,
\* bob owns a closer one there: a top-2 search of alice can return both of
\* her rows, nearest first, and can return fewer
C23_Witness ==
    \E sector \in Sectors, q \in Vecs :
        \E a1, a2, b \in vectors :
            /\ a1.sector = sector /\ a2.sector = sector /\ b.sector = sector
            /\ a1.user_id = "alice" /\ a2.user_id = "alice" /\ b.user_id = "bob"
            /\ Score(a1.v, q) > Score(a2.v, q)
            /\ Score(b.v, q) >= Score(a1.v, q)
            /\ <<[id |-> a1.id, score |-> Score(a1.v, q)],
                 [id |-> a2.id, score |-> Score(a2.v, q)]>>
                   \in searchSimilar(vectors, sector, q, 2, "alice")
            /\ \E res \in searchSimilar(vectors, sector, q, 2, "alice") : Len(res) < 2


\* ---------------------------------------------------------------- C24
\* C24: in every cache state, a search of a user returns only memories that
\* user owns: the entry another user's identical query left in the cache is
\* never returned.
C24_CacheIsUserKeyed ==
    \A query \in Queries, k \in SearchLimits, cl \in Callers :
        EffectiveUser(cl[1], cl[2]) # NoUser =>
            \A m \in searchOutcome(cache, mems, query, k, cl[1], cl[2]).result :
                m.user_id = EffectiveUser(cl[1], cl[2])


\* ---------------------------------------------------------------- C25
\* C25: whatever the graph and the seeds, waypoint expansion visits at most
\* max_exp neighbors in total.
C25_ExpansionBounded ==
    \A init_res \in SUBSET WpNodes, max_exp \in MaxExps :
        LET out == expand_via_waypoints(waypoints, init_res, max_exp)
        IN /\ out.exp_cnt <= max_exp
           /\ Cardinality(out.vis \ init_res) <= max_exp


\* ---------------------------------------------------------------- C26
\* C26: get(id) on an instance of a user never returns a memory another user
\* owns, with or without its vectors; such a memory is reported as not found.
C26_GetIsUserScoped ==
    \A id \in 1..MaxMems, include_vectors \in BOOLEAN, default_user \in Users :
        LET res == get(mems, vectors, id, include_vectors, default_user)
        IN res # NoRow => res.user_id \notin Users \ {default_user}


\* ---------------------------------------------------------------- C27
\* C27: list with a user and a sector returns the rows at positions
\* [offset, offset + limit) of that user's memories of that primary sector,
\* newest first: the sector filter comes before the pagination, so the page
\* is short only when fewer matching rows remain.
C27_ListFiltersBeforePaging ==
    \A c \in Callers, sector \in Sectors, limit \in ListLimits, offset \in ListOffsets :
        EffectiveUser(c[1], c[2]) # NoUser =>
            list(mems, c[1], c[2], limit, offset, sector)
                = Page(NewestFirst({m \in mems :
                                       /\ m.user_id = EffectiveUser(c[1], c[2])
                                       /\ m.primary_sector = sector}),
                       IF limit # NoLimit THEN limit ELSE DefaultLimit, offset)


\* ---------------------------------------------------------------- C28
\* C28: under every interleaving, the mutation of a call that passed its
\* ownership check for a named user changes or deletes no fact but the one of
\* the call's id, and that one only while it exists and is owned by the user.
C28_CheckedMutationHitsOwnFact ==
    \A call \in checked :
        call.uid # NoUser =>
            /\ \A r \in facts \ Mutation(facts, call) :
                   r.id = call.id /\ r.user_id = call.uid
            /\ \A r \in Mutation(facts, call) \ facts :
                   r.id = call.id /\ r.user_id = call.uid

\* a user's update that passed its check on a fact gone since, beside the
\* same user's invalidate still to act on a fact that is there, next to a
\* fact of another owner
C28_Witness ==
    \E c1, c2 \in checked :
        /\ c1.uid \in Users /\ c2.uid = c1.uid
        /\ ~\E r \in facts : r.id = c1.id
        /\ Mutation(facts, c1) = facts
        /\ \E r \in facts : r.id = c2.id /\ r.user_id = c2.uid
        /\ Mutation(facts, c2) # facts


\* ---------------------------------------------------------------- C29
\* the first of the three that names a user, or no user
FirstNamed(a, b, c) == IF a # NoUser THEN a ELSE IF b # NoUser THEN b ELSE c

\* C29: addFacts stores each fact under the fact's own user_id when it has
\* one, else under the call's user argument, else under the instance default
\* user, else under no user; store stores every fact under the one effective
\* user of the call, whatever user the fact names.
C29_BatchOwners ==
    \A n \in 1..(MaxFacts + 1 - nextId) : \A fs \in Arrays(n), c \in Callers :
        LET added == batch_insert_facts(facts,
                         factsWithUser(fs, EffectiveUser(c[1], c[2]), nextId, NoMeta))
            stored == storeOutcome(facts, mems, nextId, nextMem, "", "factual", TRUE, fs,
                                   c[1], c[2])
        IN /\ \A i \in 1..n : \E f \in added :
                  /\ f.id = nextId + i - 1
                  /\ f.user_id = FirstNamed(fs[i].user_id, c[1], c[2])
           /\ stored.err = NoError
           /\ \A i \in 1..n : \E f \in stored.facts :
                  /\ f.id = nextId + i - 1
                  /\ f.user_id = FirstNamed(c[1], c[2], NoUser)

\* the table after one addFacts of alice with a fact naming bob and a fact
\* naming no one
C29_Witness ==
    \E fs \in Arrays(2) :
        /\ fs[1].user_id = "bob"
        /\ fs[2].user_id = NoUser
        /\ facts = batch_insert_facts({}, factsWithUser(fs, "alice", 1, NoMeta))
        /\ {f.user_id : f \in facts} = {"alice", "bob"}


\* ---------------------------------------------------------------- C30
\* C30: the user in effect is the per-call user_id when the call names one,
\* else the instance default; when neither is set the call is unscoped: the
\* fact query returns the matching active facts of every owner, the vector
\* search can return the sector's rows of every owner, and updateFact,
\* invalidateFact and deleteFact throw nothing and act on whatever id they
\* are given.
C30_UnscopedWithoutUser ==
    /\ \A u \in Users, d \in UserArgs, t \in Times, id \in FactIds :
           /\ queryFacts(facts, NoStr, NoStr, NoStr, t, NoMinConfidence, u, d)
                  = query_facts_at_time(facts, NoStr, NoStr, NoStr, t, 0, u)
           /\ queryFacts(facts, NoStr, NoStr, NoStr, t, NoMinConfidence, NoUser, u)
                  = query_facts_at_time(facts, NoStr, NoStr, NoStr, t, 0, u)
           /\ deleteFactOutcome(facts, id, u, d) = deleteFactOutcome(facts, id, u, NoUser)
           /\ deleteFactOutcome(facts, id, NoUser, u) = deleteFactOutcome(facts, id, u, NoUser)
    /\ \A s \in StrArg(Subjects), p \in StrArg(Predicates), o \in StrArg(Objects), t \in Times :
           \A r \in facts :
               r.id \in Ids(queryFacts(facts, s, p, o, t, NoMinConfidence, NoUser, NoUser))
               <=> /\ ActiveAt(r, t)
                   /\ (s # NoStr => r.subject = s)
                   /\ (p # NoStr => r.predicate = p)
                   /\ (o # NoStr => r.object = o)
    /\ \A sector \in Sectors, q \in Vecs, k \in TopKs :
           /\ \A r \in vectors :
                  r.sector = sector =>
                      \E res \in searchSimilar(vectors, sector, q, k, NoUser) :
                          \E i \in 1..Len(res) : res[i].id = r.id
           /\ Cardinality({r \in vectors : r.sector = sector}) <= k =>
                  \E res \in searchSimilar(vectors, sector, q, k, NoUser) :
                      {res[i].id : i \in 1..Len(res)}
                          = {r.id : r \in {x \in vectors : x.sector = sector}}
    /\ \A id \in FactIds, cf \in ConcUpdates, vt \in Times :
           /\ updateFactOutcome(facts, id, cf, Undefined, NoUser, NoUser)
                  = Outcome(update_fact(facts, id, cf, Undefined), NoError)
           /\ invalidateFactOutcome(facts, id, vt, NoUser, NoUser)
                  = Outcome(invalidate_fact(facts, id, vt), NoError)
           /\ deleteFactOutcome(facts, id, NoUser, NoUser)
                  = Outcome(delete_fact(facts, id), NoError)

\* facts of alice and of bob active at one instant and vectors of alice and
\* of bob in one sector: the unscoped query returns both facts, the unscoped
\* search both vectors, the unscoped delete removes alice's fact
C30_Witness ==
    /\ \E t \in Times :
           {f.user_id : f \in queryFacts(facts, NoStr, NoStr, NoStr, t, NoMinConfidence,
                                         NoUser, NoUser)} = {"alice", "bob"}
    /\ \E q \in Vecs : \E res \in searchSimilar(vectors, "semantic", q, 2, NoUser) :
           {r.user_id : r \in {x \in vectors : x.id \in {res[i].id : i \in 1..Len(res)}}}
               = {"alice", "bob"}
    /\ \E r \in facts :
           /\ r.user_id = "alice"
           /\ deleteFactOutcome(facts, r.id, NoUser, NoUser).facts = facts \ {r}

====
